---- MODULE Spec2Model ----
(***************************************************************************)
(* A model of the subscription statistics engine of SubSnap                *)
(* (src/lib/stats.ts).                                                     *)
(*                                                                         *)
(* The engine is a set of synchronous functions over an array of           *)
(* Subscription records and the wall clock.  The state of the model is the *)
(* clock reading, the array the caller holds, and the last call made with  *)
(* its arguments and its result.  The clock is frozen during a behaviour.  *)
(*                                                                         *)
(* Dates.  A JavaScript Date is a number of milliseconds since the epoch,  *)
(* which does not fit the integers of the model checker.  A Date is        *)
(* modelled as the pair [day, ms]: the number of whole days since          *)
(* 1970-01-01 and the milliseconds elapsed in that day, so that            *)
(* getTime() = day * MsPerDay + ms.  The local time zone is taken to have  *)
(* no daylight-saving transitions (such as UTC), so that a local day is    *)
(* always MsPerDay long.                                                   *)
(*                                                                         *)
(* Numbers.  Prices and charge amounts are whole numbers from 0 to below   *)
(* 2^31.  The costs computed from them are the IEEE 754 doubles the code   *)
(* computes, with their rounding: the double m * 2^e, 2^52 <= m < 2^53, is *)
(* the record [m, e], m written in base 2^15 with the lowest digit first   *)
(* (the integers of the model checker have 32 bits); the number 0 is the   *)
(* record with no digits.                                                  *)
(***************************************************************************)
EXTENDS Integers, Sequences, FiniteSets, TLC

VARIABLES now, subscriptions, call

vars == <<now, subscriptions, call>>

(***************************************************************************)
(* The Date built-in, as far as stats.ts uses it.                          *)
(***************************************************************************)

\* 1000 * 60 * 60 * 24, the divisor of the elapsed milliseconds.
MsPerDay == 86400000

\* The number of days from 1970-01-01 to the first day of month index m
\* (0 = January) of year y, plus dt - 1: ECMAScript's MakeDay(y, m, dt).
\* m and dt may lie outside their calendar ranges and carry over.
MakeDay(y, m, dt) ==
    LET ym   == y + (m \div 12)
        mn   == (m % 12) + 1
        yy   == IF mn <= 2 THEN ym - 1 ELSE ym
        era  == yy \div 400
        yoe  == yy - era * 400
        mp   == IF mn > 2 THEN mn - 3 ELSE mn + 9
        doy  == (153 * mp + 2) \div 5
        doe  == yoe * 365 + (yoe \div 4) - (yoe \div 100) + doy
    IN  era * 146097 + doe - 719468 + (dt - 1)

\* The calendar fields [year, month (0 = January), date] of a day number:
\* getFullYear(), getMonth(), getDate().
Civil(z) ==
    LET zz   == z + 719468
        era  == zz \div 146097
        doe  == zz - era * 146097
        yoe  == (doe - (doe \div 1460) + (doe \div 36524) - (doe \div 146096)) \div 365
        doy  == doe - (365 * yoe + (yoe \div 4) - (yoe \div 100))
        mp   == (5 * doy + 2) \div 153
        d    == doy - ((153 * mp + 2) \div 5) + 1
        mn   == IF mp < 10 THEN mp + 3 ELSE mp - 9
    IN  [year  |-> IF mn <= 2 THEN yoe + era * 400 + 1 ELSE yoe + era * 400,
         month |-> mn - 1,
         date  |-> d]

getFullYear(t) == Civil(t.day).year
getMonth(t) == Civil(t.day).month
getDate(t) == Civil(t.day).date

\* new Date(year, month, date): local midnight of that calendar day.
NewDate(y, m, dt) == [day |-> MakeDay(y, m, dt), ms |-> 0]

\* t.setDate(n), t.setMonth(n), t.setFullYear(n): the time of day is kept and
\* the other calendar fields are those of t.
setDate(t, n) ==
    [day |-> MakeDay(getFullYear(t), getMonth(t), n), ms |-> t.ms]
setMonth(t, n) ==
    [day |-> MakeDay(getFullYear(t), n, getDate(t)), ms |-> t.ms]
setFullYear(t, n) ==
    [day |-> MakeDay(n, getMonth(t), getDate(t)), ms |-> t.ms]

\* a < b, a <= b on Dates: the comparison of the two getTime() values.
DateLT(a, b) == a.day < b.day \/ (a.day = b.day /\ a.ms < b.ms)
DateLE(a, b) == a.day < b.day \/ (a.day = b.day /\ a.ms <= b.ms)

\* Math.floor((b.getTime() - a.getTime()) / (1000 * 60 * 60 * 24))
FloorDays(a, b) == (b.day - a.day) + ((b.ms - a.ms) \div MsPerDay)

(***************************************************************************)
(* The Number built-in, as far as stats.ts uses it: the doubles that are   *)
(* 0 or positive, their products, sums and quotients rounded to the        *)
(* nearest double (to the even one of two equally near), and their order.  *)
(***************************************************************************)

\* Whole numbers of any size are sequences of digits in this base, the
\* lowest digit first and the highest digit not 0.
Base == 2^15

RECURSIVE Limbs(_)
Limbs(n) == IF n = 0 THEN << >> ELSE << n % Base >> \o Limbs(n \div Base)

RECURSIVE Trim(_)
Trim(a) ==
    IF a # << >> /\ a[Len(a)] = 0 THEN Trim(SubSeq(a, 1, Len(a) - 1)) ELSE a

\* a + b + carry
RECURSIVE BigPlus(_, _, _)
BigPlus(a, b, carry) ==
    IF a = << >> /\ b = << >>
    THEN IF carry = 0 THEN << >> ELSE << carry >>
    ELSE LET x == IF a = << >> THEN 0 ELSE Head(a)
             y == IF b = << >> THEN 0 ELSE Head(b)
             t == x + y + carry
         IN  << t % Base >>
               \o BigPlus(IF a = << >> THEN a ELSE Tail(a),
                          IF b = << >> THEN b ELSE Tail(b), t \div Base)

\* a * k + carry, k one digit
RECURSIVE BigTimesLimb(_, _, _)
BigTimesLimb(a, k, carry) ==
    IF a = << >> THEN IF carry = 0 THEN << >> ELSE << carry >>
    ELSE LET t == Head(a) * k + carry
         IN  << t % Base >> \o BigTimesLimb(Tail(a), k, t \div Base)

\* a * b
RECURSIVE BigTimes(_, _)
BigTimes(a, b) ==
    IF b = << >> THEN << >>
    ELSE IF Head(b) = 0 THEN << 0 >> \o BigTimes(a, Tail(b))
    ELSE BigPlus(BigTimesLimb(a, Head(b), 0),
                 << 0 >> \o BigTimes(a, Tail(b)), 0)

\* The quotient q and the remainder r of a by k, 0 < k < Base.
RECURSIVE BigOver(_, _)
BigOver(a, k) ==
    IF a = << >> THEN [q |-> << >>, r |-> 0]
    ELSE LET high == BigOver(Tail(a), k)
             t == high.r * Base + Head(a)
         IN  [q |-> << t \div k >> \o high.q, r |-> t % k]

\* The number of binary digits of a whole number.
RECURSIVE Bits(_)
Bits(n) == IF n = 0 THEN 0 ELSE 1 + Bits(n \div 2)

BitLength(a) == IF a = << >> THEN 0 ELSE 15 * (Len(a) - 1) + Bits(a[Len(a)])

\* a * 2^s, and a over 2^s rounded down.
ShiftLeft(a, s) ==
    [k \in 1..(s \div 15) |-> 0] \o Trim(BigTimesLimb(a, 2^(s % 15), 0))
ShiftRight(a, s) ==
    Trim(BigOver(SubSeq(a, (s \div 15) + 1, Len(a)), 2^(s % 15)).q)

\* a is a multiple of 2^s.
LowZero(a, s) ==
    /\ \A i \in 1..(s \div 15) : a[i] = 0
    /\ s % 15 = 0 \/ a[(s \div 15) + 1] % 2^(s % 15) = 0

\* The number 0.
Zero == [m |-> << >>, e |-> 0]

\* The double nearest to n * 2^e, or to a number between n * 2^e and
\* (n + 1) * 2^e when inexact (n then has more than 54 binary digits); of
\* two doubles equally near, the one with the even m.
Round(n, e, inexact) ==
    LET len == BitLength(n)
        s == len - 53
        q2 == ShiftRight(n, s - 1)
        q == ShiftRight(q2, 1)
        half == q2[1] % 2 = 1
        sticky == inexact \/ ~ LowZero(n, s - 1)
        m == IF half /\ (sticky \/ q[1] % 2 = 1) THEN BigPlus(q, << 1 >>, 0)
             ELSE q
    IN  IF len = 0 THEN Zero
        ELSE IF len <= 53
             THEN [m |-> ShiftLeft(n, 53 - len), e |-> e - (53 - len)]
        ELSE IF BitLength(m) > 53
             THEN [m |-> ShiftRight(m, 1), e |-> e + s + 1]
        ELSE [m |-> m, e |-> e + s]

\* The double of a whole number.
Number(n) == Round(Limbs(n), 0, FALSE)

\* The literals 4.33 and 2.17: the doubles nearest to them,
\* 0x1.151eb851eb852p+2 and 0x1.15c28f5c28f5cp+1.
D4_33 == [m |-> << 14418, 2621, 18350, 138 >>, e |-> -50]
D2_17 == [m |-> << 3932, 27525, 28835, 138 >>, e |-> -51]

\* a * b.  The product of the two m is computed over the digits of the one
\* that has fewer digits other than 0.
Times(a, b) ==
    LET NonZero(m) == Cardinality({ i \in DOMAIN m : m[i] # 0 })
        n == IF NonZero(a.m) < NonZero(b.m) THEN BigTimes(b.m, a.m)
             ELSE BigTimes(a.m, b.m)
    IN  Round(Trim(n), a.e + b.e, FALSE)

\* a + b
Plus(a, b) ==
    LET high == IF a.e >= b.e THEN a ELSE b
        low == IF a.e >= b.e THEN b ELSE a
    IN  IF low = Zero \/ (high # Zero /\ high.e - low.e > 54) THEN high
        ELSE Round(BigPlus(ShiftLeft(high.m, high.e - low.e), low.m, 0),
                   low.e, FALSE)

\* a / k, k a whole number, 0 < k < Base.
Over(a, k) ==
    LET d == BigOver(<< 0, 0 >> \o a.m, k)
    IN  IF a = Zero THEN Zero ELSE Round(Trim(d.q), a.e - 30, d.r # 0)

RECURSIVE BigGT(_, _)
BigGT(a, b) ==
    a # << >>
    /\ \/ a[Len(a)] > b[Len(b)]
       \/ /\ a[Len(a)] = b[Len(b)]
          /\ BigGT(SubSeq(a, 1, Len(a) - 1), SubSeq(b, 1, Len(b) - 1))

\* a > b
GT(a, b) ==
    /\ a # Zero
    /\ \/ b = Zero
       \/ a.e > b.e
       \/ a.e = b.e /\ BigGT(a.m, b.m)

(***************************************************************************)
(* The functions of stats.ts.                                              *)
(***************************************************************************)

\* The sum of the amounts of a charges array: charges.reduce(..., 0).
RECURSIVE SumAmounts(_)
SumAmounts(charges) ==
    IF charges = << >> THEN 0
    ELSE SumAmounts(SubSeq(charges, 1, Len(charges) - 1))
           + charges[Len(charges)].amount

\* getTotalPrice adding the charges to the flat price.
getTotalPriceWithFlat(subscription) ==
    subscription.price + SumAmounts(subscription.charges.items)

\* The optional field charges is the record [present, items]: whether the
\* field is there, and the array it holds (empty when it is not there).
getTotalPrice(subscription) ==
    IF subscription.charges.present /\ Len(subscription.charges.items) > 0
    THEN SumAmounts(subscription.charges.items)
    ELSE subscription.price

\* The six values of RecurringDuration.
Durations ==
    {"weekly", "bi-weekly", "monthly", "quarterly", "semi-annually", "yearly"}

getDaysInDuration(duration) ==
    CASE duration = "weekly" -> 7
      [] duration = "bi-weekly" -> 14
      [] duration = "monthly" -> 30
      [] duration = "quarterly" -> 90
      [] duration = "semi-annually" -> 180
      [] duration = "yearly" -> 365
      [] OTHER -> 30

\* The first switch of calculateNextRenewalDate: nextRenewal, a copy of
\* startDate, moved cycles periods on.  The switch has no default case.
Project(startDate, duration, cycles) ==
    CASE duration = "weekly" ->
           setDate(startDate, getDate(startDate) + cycles * 7)
      [] duration = "bi-weekly" ->
           setDate(startDate, getDate(startDate) + cycles * 14)
      [] duration = "monthly" ->
           setMonth(startDate, getMonth(startDate) + cycles)
      [] duration = "quarterly" ->
           setMonth(startDate, getMonth(startDate) + cycles * 3)
      [] duration = "semi-annually" ->
           setMonth(startDate, getMonth(startDate) + cycles * 6)
      [] duration = "yearly" ->
           setFullYear(startDate, getFullYear(startDate) + cycles)
      [] OTHER -> startDate

\* Correct without its effect: the correction pass left out.
CorrectOmitted(nextRenewal, duration) == nextRenewal

\* The second switch of calculateNextRenewalDate: one more period, from
\* nextRenewal itself.
Correct(nextRenewal, duration) ==
    CASE duration = "weekly" ->
           setDate(nextRenewal, getDate(nextRenewal) + 7)
      [] duration = "bi-weekly" ->
           setDate(nextRenewal, getDate(nextRenewal) + 14)
      [] duration = "monthly" ->
           setMonth(nextRenewal, getMonth(nextRenewal) + 1)
      [] duration = "quarterly" ->
           setMonth(nextRenewal, getMonth(nextRenewal) + 3)
      [] duration = "semi-annually" ->
           setMonth(nextRenewal, getMonth(nextRenewal) + 6)
      [] duration = "yearly" ->
           setFullYear(nextRenewal, getFullYear(nextRenewal) + 1)
      [] OTHER -> nextRenewal

NextRenewalAt(subscription, clock) ==
    LET startDate == subscription.startDate
        daysSinceStart == FloorDays(startDate, clock)
        daysInDuration == getDaysInDuration(subscription.recurringDuration)
        cyclesPassed == daysSinceStart \div daysInDuration
        nextRenewal ==
            Project(startDate, subscription.recurringDuration, cyclesPassed + 1)
    IN  IF DateLT(clock, startDate) THEN startDate
        ELSE IF DateLE(nextRenewal, clock)
             THEN Correct(nextRenewal, subscription.recurringDuration)
             ELSE nextRenewal

calculateNextRenewalDate(subscription) == NextRenewalAt(subscription, now)

\* calculateTotalSpent counting only the completed cycles.
calculateTotalSpentCompleted(subscription) ==
    LET startDate == subscription.startDate
        daysSinceStart == FloorDays(startDate, now)
        daysInDuration == getDaysInDuration(subscription.recurringDuration)
        billingCycles == daysSinceStart \div daysInDuration
    IN  IF DateLT(now, startDate) THEN 0
        ELSE getTotalPrice(subscription) * billingCycles

calculateTotalSpent(subscription) ==
    LET startDate == subscription.startDate
        daysSinceStart == FloorDays(startDate, now)
        daysInDuration == getDaysInDuration(subscription.recurringDuration)
        billingCycles == (daysSinceStart \div daysInDuration) + 1
    IN  IF DateLT(now, startDate) THEN 0
        ELSE getTotalPrice(subscription) * billingCycles

\* The value no subscription has: null.
Null == [null |-> TRUE]

\* price is a whole number; the result is the double the code computes.
calculateMonthlyCost(price, duration) ==
    CASE duration = "weekly" -> Times(Number(price), D4_33)
      [] duration = "bi-weekly" -> Times(Number(price), D2_17)
      [] duration = "monthly" -> Number(price)
      [] duration = "quarterly" -> Over(Number(price), 3)
      [] duration = "semi-annually" -> Over(Number(price), 6)
      [] duration = "yearly" -> Over(Number(price), 12)
      [] OTHER -> Number(price)

\* MoreCostly with >= for >: a tie replaces the accumulator.
MoreCostlyOrEqual(mostCostly, current) ==
    LET mostCostlyMonthly ==
            calculateMonthlyCost(getTotalPrice(mostCostly),
                                 mostCostly.recurringDuration)
        currentMonthly ==
            calculateMonthlyCost(getTotalPrice(current),
                                 current.recurringDuration)
    IN  IF GT(mostCostlyMonthly, currentMonthly) THEN mostCostly
        ELSE current

\* The callback of the reduce of getMostCostlySubscription.
MoreCostly(mostCostly, current) ==
    LET mostCostlyMonthly ==
            calculateMonthlyCost(getTotalPrice(mostCostly),
                                 mostCostly.recurringDuration)
        currentMonthly ==
            calculateMonthlyCost(getTotalPrice(current),
                                 current.recurringDuration)
    IN  IF GT(currentMonthly, mostCostlyMonthly) THEN current
        ELSE mostCostly

\* reduce without an initial value: the accumulator starts as the first
\* element and the callback runs on the elements from the second on.
RECURSIVE ReduceMostCostly(_, _, _)
ReduceMostCostly(subs, i, acc) ==
    IF i > Len(subs) THEN acc
    ELSE ReduceMostCostly(subs, i + 1, MoreCostly(acc, subs[i]))

getMostCostlySubscription(subs) ==
    IF Len(subs) = 0 THEN Null
    ELSE ReduceMostCostly(subs, 2, subs[1])

\* The names of the properties the object {} inherits from
\* Object.prototype.  acc[key] is truthy for each of them, and is no array.
ObjectPrototype ==
    {"constructor", "__defineGetter__", "__defineSetter__", "hasOwnProperty",
     "__lookupGetter__", "__lookupSetter__", "isPrototypeOf",
     "propertyIsEnumerable", "toString", "valueOf", "__proto__",
     "toLocaleString"}

\* The outcome of a grouping function that throws "TypeError:
\* acc[...].push is not a function".  No accumulator is this record: a
\* group an accumulator holds is not empty.
TypeError == [TypeError |-> << >>]

\* Push putting the subscription at the front of its group.
PushFront(acc, key, sub) ==
    IF key \in DOMAIN acc
    THEN [acc EXCEPT ![key] = << sub >> \o @]
    ELSE IF key \in ObjectPrototype THEN TypeError
    ELSE [k \in DOMAIN acc \cup {key} |->
            IF k = key THEN << sub >> ELSE acc[k]]

\* acc[key].push(sub), after acc[key] = [] when !acc[key].  acc[key] is a
\* group of acc, or what {} inherits under that name, or undefined; the
\* push throws on what is inherited.
Push(acc, key, sub) ==
    IF key \in DOMAIN acc
    THEN [acc EXCEPT ![key] = Append(@, sub)]
    ELSE IF key \in ObjectPrototype THEN TypeError
    ELSE [k \in DOMAIN acc \cup {key} |->
            IF k = key THEN << sub >> ELSE acc[k]]

\* The object {} the reduces of the grouping functions start from.
EmptyRecord == [k \in {} |-> << >>]

\* The reduces of the grouping functions end when the callback throws.
RECURSIVE ReduceByCurrency(_, _, _)
ReduceByCurrency(subs, i, acc) ==
    IF i > Len(subs) \/ acc = TypeError THEN acc
    ELSE ReduceByCurrency(subs, i + 1, Push(acc, subs[i].currency, subs[i]))

groupByCurrency(subs) == ReduceByCurrency(subs, 1, EmptyRecord)

RECURSIVE ReduceByDuration(_, _, _)
ReduceByDuration(subs, i, acc) ==
    IF i > Len(subs) \/ acc = TypeError THEN acc
    ELSE ReduceByDuration(subs, i + 1,
                          Push(acc, subs[i].recurringDuration, subs[i]))

groupByDuration(subs) == ReduceByDuration(subs, 1, EmptyRecord)

\* subscriptions.map(sub => ({subscription: sub, nextRenewal: ...})).
Renewals(subs) ==
    [i \in 1..Len(subs) |->
       [subscription |-> subs[i],
        nextRenewal |-> calculateNextRenewalDate(subs[i])]]

\* One element put into a sorted array after every element that is not
\* later than it.
RECURSIVE InsertByDate(_, _)
InsertByDate(sorted, r) ==
    IF sorted = << >> THEN << r >>
    ELSE IF DateLT(r.nextRenewal, sorted[Len(sorted)].nextRenewal)
         THEN Append(InsertByDate(SubSeq(sorted, 1, Len(sorted) - 1), r),
                     sorted[Len(sorted)])
         ELSE Append(sorted, r)

RECURSIVE SortFrom(_, _, _)
SortFrom(rs, i, sorted) ==
    IF i > Len(rs) THEN sorted
    ELSE SortFrom(rs, i + 1, InsertByDate(sorted, rs[i]))

\* The array left as it is.
SortOmitted(rs) == rs

\* .sort((a, b) => a.nextRenewal.getTime() - b.nextRenewal.getTime()):
\* ascending, and stable as Array.prototype.sort is.
SortByDate(rs) == SortFrom(rs, 1, << >>)

\* .map(({ subscription }) => subscription)
Subscriptions(rs) == [k \in 1..Len(rs) |-> rs[k].subscription]

\* The default of the parameter daysAhead.
DefaultDaysAhead == 30

getUpcomingRenewals(subs, daysAhead) ==
    LET futureDate == setDate(now, getDate(now) + daysAhead)
        InWindow(r) == /\ DateLE(now, r.nextRenewal)
                       /\ DateLE(r.nextRenewal, futureDate)
    IN  Subscriptions(SortByDate(SelectSeq(Renewals(subs), InWindow)))

getRenewalsThisMonth(subs) ==
    LET startOfMonth == NewDate(getFullYear(now), getMonth(now), 1)
        endOfMonth == NewDate(getFullYear(now), getMonth(now) + 1, 0)
        InMonth(r) == /\ DateLE(startOfMonth, r.nextRenewal)
                      /\ DateLE(r.nextRenewal, endOfMonth)
    IN  Subscriptions(SortByDate(SelectSeq(Renewals(subs), InMonth)))

\* renewals[k] as getNextRenewal returns it: {subscription, date}.
RenewalPair(r) == [subscription |-> r.subscription, date |-> r.nextRenewal]

\* getNextRenewal returning the last element of the sorted array.
getNextRenewalLast(subs) ==
    IF Len(subs) = 0 THEN Null
    ELSE RenewalPair(SortByDate(Renewals(subs))[Len(subs)])

getNextRenewal(subs) ==
    IF Len(subs) = 0 THEN Null
    ELSE RenewalPair(SortByDate(Renewals(subs))[1])

(***************************************************************************)
(* What the functions write.  Date's setters and Array's sort change the   *)
(* object they are called on.  An object is named by a reference: "input"  *)
(* is an object of the caller (the subscriptions array, or the startDate   *)
(* of one of its subscriptions), every other reference is an object the    *)
(* function made.                                                          *)
(***************************************************************************)

\* new Date(x) taken for x itself: no copy is made.
NewDateAliased(ref, made) == ref

\* new Date(x), x the Date at ref: a Date of its own, with the value of x.
NewDateOf(ref, made) == made

\* subscription.startDate after calculateNextRenewalDate(subscription).  The
\* setters run on nextRenewal, for a subscription that has started and a
\* duration the switches have a case for, and leave in it the date returned.
StartDateAfter(subscription) ==
    LET startDate == NewDateOf("input", "startDate")
        nextRenewal == NewDateOf(startDate, "nextRenewal")
        written == /\ ~ DateLT(now, subscription.startDate)
                   /\ subscription.recurringDuration \in Durations
    IN  IF written /\ nextRenewal = "input"
        THEN calculateNextRenewalDate(subscription)
        ELSE subscription.startDate

\* The array after calculateNextRenewalDate has run on each subscription.
AfterRenewals(subs) ==
    [i \in 1..Len(subs) |->
       [subs[i] EXCEPT !.startDate = StartDateAfter(subs[i])]]

\* The arrays .map and .filter return: arrays of their own.
MapOf(ref) == "mapped"
FilterOf(ref) == "filtered"

\* The array after .sort has run on the array at receiver: sort orders its
\* receiver in place.
AfterSort(subs, receiver) ==
    IF receiver = "input"
    THEN Subscriptions(SortByDate(Renewals(subs)))
    ELSE subs

\* The subscriptions array after each of the functions that sort.
AfterUpcomingRenewals(subs) ==
    AfterSort(AfterRenewals(subs), FilterOf(MapOf("input")))
AfterRenewalsThisMonth(subs) ==
    AfterSort(AfterRenewals(subs), FilterOf(MapOf("input")))
AfterNextRenewal(subs) ==
    IF Len(subs) = 0 THEN subs
    ELSE AfterSort(AfterRenewals(subs), MapOf("input"))

RECURSIVE ReduceMonthly(_, _, _)
ReduceMonthly(subs, i, sum) ==
    IF i > Len(subs) THEN sum
    ELSE ReduceMonthly(subs, i + 1,
           Plus(sum, calculateMonthlyCost(getTotalPrice(subs[i]),
                                          subs[i].recurringDuration)))

calculateAverageMonthlyCost(subs) ==
    IF Len(subs) = 0 THEN Zero
    ELSE Over(ReduceMonthly(subs, 1, Zero), Len(subs))

RECURSIVE ReduceYearly(_, _, _)
ReduceYearly(subs, i, sum) ==
    IF i > Len(subs) THEN sum
    ELSE ReduceYearly(subs, i + 1,
           Plus(sum,
                Times(calculateMonthlyCost(getTotalPrice(subs[i]),
                                           subs[i].recurringDuration),
                      Number(12))))

calculateYearlyCost(subs) == ReduceYearly(subs, 1, Zero)

(***************************************************************************)
(* StatsSection of the presentation layer, as far as its cost figures go.  *)
(***************************************************************************)

\* The reduce that computes totalMonthly: it passes sub.price.
RECURSIVE ReduceTotalMonthly(_, _, _)
ReduceTotalMonthly(subs, i, sum) ==
    IF i > Len(subs) THEN sum
    ELSE ReduceTotalMonthly(subs, i + 1,
           Plus(sum, calculateMonthlyCost(subs[i].price,
                                          subs[i].recurringDuration)))

\* The letters of a currency code.
Letters ==
    {"A", "B", "C", "D", "E", "F", "G", "H", "I", "J", "K", "L", "M",
     "N", "O", "P", "Q", "R", "S", "T", "U", "V", "W", "X", "Y", "Z",
     "a", "b", "c", "d", "e", "f", "g", "h", "i", "j", "k", "l", "m",
     "n", "o", "p", "q", "r", "s", "t", "u", "v", "w", "x", "y", "z"}

\* The currency codes Intl.NumberFormat accepts: three letters.  For any
\* other currency formatCurrency throws "RangeError: Invalid currency code".
IsWellFormedCurrencyCode(currency) ==
    /\ Len(currency) = 3
    /\ \A i \in 1..3 : SubSeq(currency, i, i) \in Letters

\* What a render shows when it has no figures: the message that no
\* subscription has the selected currency ("none"), or nothing, a grouping
\* function having thrown ("TypeError") or formatCurrency ("RangeError").
NoFigures(shown) ==
    [shown |-> shown, count |-> 0, totalMonthly |-> Zero,
     averageMonthly |-> Zero, yearlyCost |-> Zero]

\* One render of StatsSection with the state selectedCurrency: it groups
\* the subscriptions by currency, and shows the message that no subscription
\* has the selected currency, or computes the figures of the subscriptions
\* that have it, groups these by duration and shows the figures, each
\* formatted by formatCurrency in the selected currency.
StatsSection(subs, selectedCurrency) ==
    LET HasCurrency(sub) == sub.currency = selectedCurrency
        filteredSubscriptions == SelectSeq(subs, HasCurrency)
    IN  IF groupByCurrency(subs) = TypeError THEN NoFigures("TypeError")
        ELSE IF Len(filteredSubscriptions) = 0 /\ Len(subs) > 0
        THEN NoFigures("none")
        ELSE IF groupByDuration(filteredSubscriptions) = TypeError
        THEN NoFigures("TypeError")
        ELSE IF ~ IsWellFormedCurrencyCode(selectedCurrency)
        THEN NoFigures("RangeError")
        ELSE [shown |-> "figures",
              count |-> Len(filteredSubscriptions),
              totalMonthly |-> ReduceTotalMonthly(filteredSubscriptions, 1, Zero),
              averageMonthly |-> calculateAverageMonthlyCost(filteredSubscriptions),
              yearlyCost |-> calculateYearlyCost(filteredSubscriptions)]

(***************************************************************************)
(* The inputs of the model.                                                *)
(***************************************************************************)

\* The clock reaches at most this many nominal cycles past a start date.
MaxCycles == 2

\* A recurringDuration outside the enumeration, as untyped input can carry.
UnknownDuration == "daily"
AnyDuration == Durations \cup {UnknownDuration}

\* Start dates: the first and the last days of every month of a year before
\* a leap year and of a leap year, at midnight and at noon.
StartYears == {2023, 2024}
StartDatesOfMonth == {1, 28, 29, 30, 31}
TimesOfDay == {0, 43200000}
StartDates ==
    { [day |-> MakeDay(y, m, d), ms |-> t] :
        <<y, m, d, t>> \in
          { q \in StartYears \X (0..11) \X StartDatesOfMonth \X TimesOfDay :
              Civil(MakeDay(q[1], q[2], q[3])).month = q[2] } }

\* A subscription without the field charges, and one with two charges.
NoCharges == [present |-> FALSE, items |-> << >>]
SomeCharges ==
    [present |-> TRUE, items |-> << [amount |-> 5], [amount |-> 8] >>]

Sub(i, p, ch, cur, dur, start) ==
    [id |-> i, price |-> p, charges |-> ch, currency |-> cur,
     recurringDuration |-> dur, startDate |-> start]

\* Clock readings around and after a start date: from the day before it to
\* MaxCycles nominal cycles after it, at every time of day of the model.
ClocksAfter(start, dur) ==
    { [day |-> start.day + off, ms |-> t] :
        <<off, t>> \in ((-1)..(MaxCycles * getDaysInDuration(dur))) \X TimesOfDay }

NoCall == [op |-> "none"]

(***************************************************************************)
(* The calls on one subscription.                                          *)
(***************************************************************************)

InitDate ==
    /\ \E start \in StartDates, dur \in AnyDuration, ch \in {NoCharges, SomeCharges} :
         /\ subscriptions = << Sub(1, 12, ch, "USD", dur, start) >>
         /\ now \in ClocksAfter(start, dur)
    /\ call = NoCall

CallNextRenewalDate(i) ==
    /\ call' = [op |-> "calculateNextRenewalDate", arg |-> i,
                result |-> calculateNextRenewalDate(subscriptions[i])]
    /\ subscriptions' =
         [subscriptions EXCEPT ![i].startDate = StartDateAfter(subscriptions[i])]
    /\ UNCHANGED now

CallTotalSpent(i) ==
    /\ call' = [op |-> "calculateTotalSpent", arg |-> i,
                result |-> calculateTotalSpent(subscriptions[i])]
    /\ UNCHANGED <<now, subscriptions>>

NextDate ==
    \/ \E i \in DOMAIN subscriptions : CallNextRenewalDate(i)
    \/ \E i \in DOMAIN subscriptions : CallTotalSpent(i)

SpecDate == InitDate /\ [][NextDate]_vars

(***************************************************************************)
(* The calls on an array of subscriptions.                                 *)
(***************************************************************************)

\* The arrays hold at most this many subscriptions.
MaxLen == 3

\* subscriptions is an array of at most MaxLen subscriptions of a pool; the
\* subscription at index i has id i, so that equal records at two indexes
\* stay two objects.
ArrayOf(pool) ==
    \E n \in 0..MaxLen : \E f \in [1..n -> pool] :
        subscriptions = [i \in 1..n |-> [f[i] EXCEPT !.id = i]]

\* The clocks of the array calls: 2024-03-10 and 2024-01-25, at noon.
ListClocks ==
    { [day |-> MakeDay(2024, 2, 10), ms |-> 43200000],
      [day |-> MakeDay(2024, 0, 25), ms |-> 43200000] }

\* Subscriptions that differ in what they cost: a flat price, and the same
\* flat price overridden by charges that sum to a twelfth of it, in two
\* currencies, with a weekly, a monthly and a yearly duration; and two
\* subscriptions whose monthly costs, 1519 * 4.33 = 6577.27 and
\* 3031 * 2.17 = 6577.2699999999995, are two doubles next to each other.
CostPool ==
    LET start == [day |-> MakeDay(2024, 0, 1), ms |-> 0]
    IN  { Sub(0, 144, ch, cur, dur, start) :
            <<ch, cur, dur>> \in
              { NoCharges,
                [present |-> TRUE,
                 items |-> << [amount |-> 5], [amount |-> 7] >>] }
              \X {"USD", "EUR"}
              \X {"weekly", "monthly", "yearly"} }
        \cup { Sub(0, 1519, NoCharges, "USD", "weekly", start),
               Sub(0, 3031, NoCharges, "USD", "bi-weekly", start) }

\* Subscriptions that differ in when they renew: started on 2024-01-31 and
\* on 2024-03-10 (after the one clock and not after the other; 45 days after
\* the earlier clock), at midnight and at noon, with a weekly, a monthly and
\* an unknown duration.
RenewalPool ==
    { Sub(0, 12, NoCharges, "USD", dur, [day |-> d, ms |-> t]) :
        <<d, t, dur>> \in
          { MakeDay(2024, 0, 31), MakeDay(2024, 2, 10) }
          \X TimesOfDay
          \X {"weekly", "monthly", UnknownDuration} }

\* A charges array holds at most this many charges.
MaxCharges == 3

\* The arrays of at most MaxCharges charges with the amounts 0, 5 and 7.
ChargeArrays ==
    UNION { [1..n -> { [amount |-> a] : a \in {0, 5, 7} }] : n \in 0..MaxCharges }

\* One subscription, with a flat price of 0, 12 or 144 and with the field
\* charges absent or holding any of the charge arrays.
InitPrice ==
    /\ \E p \in {0, 12, 144} :
       \E ch \in {NoCharges} \cup
                 { [present |-> TRUE, items |-> c] : c \in ChargeArrays } :
         subscriptions =
           << Sub(1, p, ch, "USD", "monthly",
                  [day |-> MakeDay(2024, 0, 1), ms |-> 0]) >>
    /\ now = [day |-> MakeDay(2024, 2, 10), ms |-> 43200000]
    /\ call = NoCall

InitCost ==
    /\ ArrayOf(CostPool)
    /\ now = [day |-> MakeDay(2024, 2, 10), ms |-> 43200000]
    /\ call = NoCall

InitRenewals ==
    /\ ArrayOf(RenewalPool)
    /\ now \in ListClocks
    /\ call = NoCall

CallTotalPrice(i) ==
    /\ call' = [op |-> "getTotalPrice", arg |-> i,
                result |-> getTotalPrice(subscriptions[i])]
    /\ UNCHANGED <<now, subscriptions>>

CallMonthlyCost(i) ==
    /\ call' = [op |-> "calculateMonthlyCost", arg |-> i,
                result |-> calculateMonthlyCost(
                             getTotalPrice(subscriptions[i]),
                             subscriptions[i].recurringDuration)]
    /\ UNCHANGED <<now, subscriptions>>

CallMostCostly ==
    /\ call' = [op |-> "getMostCostlySubscription", arg |-> 0,
                result |-> getMostCostlySubscription(subscriptions)]
    /\ UNCHANGED <<now, subscriptions>>

CallGroupByCurrency ==
    /\ call' = [op |-> "groupByCurrency", arg |-> 0,
                result |-> groupByCurrency(subscriptions)]
    /\ UNCHANGED <<now, subscriptions>>

CallGroupByDuration ==
    /\ call' = [op |-> "groupByDuration", arg |-> 0,
                result |-> groupByDuration(subscriptions)]
    /\ UNCHANGED <<now, subscriptions>>

CallUpcomingRenewals(daysAhead) ==
    /\ call' = [op |-> "getUpcomingRenewals", arg |-> daysAhead,
                result |-> getUpcomingRenewals(subscriptions, daysAhead)]
    /\ subscriptions' = AfterUpcomingRenewals(subscriptions)
    /\ UNCHANGED now

CallRenewalsThisMonth ==
    /\ call' = [op |-> "getRenewalsThisMonth", arg |-> 0,
                result |-> getRenewalsThisMonth(subscriptions)]
    /\ subscriptions' = AfterRenewalsThisMonth(subscriptions)
    /\ UNCHANGED now

CallNextRenewal ==
    /\ call' = [op |-> "getNextRenewal", arg |-> 0,
                result |-> getNextRenewal(subscriptions)]
    /\ subscriptions' = AfterNextRenewal(subscriptions)
    /\ UNCHANGED now

\* A render with selectedCurrency one of the currencies of the model (the
\* state is the first currency of the array, or what the user selected).
CallStatsSection(selectedCurrency) ==
    /\ call' = [op |-> "StatsSection", arg |-> selectedCurrency,
                result |-> StatsSection(subscriptions, selectedCurrency)]
    /\ UNCHANGED <<now, subscriptions>>

NextPrice == \E i \in DOMAIN subscriptions : CallTotalPrice(i)

\* These calls read the array and write nothing, so that a call finds the
\* array as the behaviour started with it: a behaviour makes one call.
NextCost ==
    \/ call = NoCall /\ \E i \in DOMAIN subscriptions : CallTotalPrice(i)
    \/ call = NoCall /\ \E i \in DOMAIN subscriptions : CallMonthlyCost(i)
    \/ call = NoCall /\ CallMostCostly
    \/ call = NoCall /\ CallGroupByCurrency
    \/ call = NoCall /\ CallGroupByDuration
    \/ call = NoCall /\ \E selectedCurrency \in {"USD", "EUR"} :
                           CallStatsSection(selectedCurrency)

NextRenewals ==
    \/ \E daysAhead \in {7, DefaultDaysAhead} : CallUpcomingRenewals(daysAhead)
    \/ CallRenewalsThisMonth
    \/ CallNextRenewal

\* The subscriptions of the renewal pool that start at noon.
FramePool == { sub \in RenewalPool : sub.startDate.ms = 43200000 }

InitFrame ==
    /\ ArrayOf(FramePool)
    /\ now \in ListClocks
    /\ call = NoCall

\* The calls in any order, each on the array the calls before it left.
NextFrame ==
    \/ \E daysAhead \in {7, DefaultDaysAhead} : CallUpcomingRenewals(daysAhead)
    \/ CallRenewalsThisMonth
    \/ CallNextRenewal
    \/ \E i \in DOMAIN subscriptions : CallNextRenewalDate(i)
    \/ CallMostCostly
    \/ CallGroupByCurrency
    \/ CallGroupByDuration

SpecFrame == InitFrame /\ [][NextFrame]_vars

SpecPrice == InitPrice /\ [][NextPrice]_vars

SpecCost == InitCost /\ [][NextCost]_vars

SpecRenewals == InitRenewals /\ [][NextRenewals]_vars

(***************************************************************************)
(* Properties of the calls on one subscription.                            *)
(***************************************************************************)

\* The subscription the last call was made on.
CalledSub == subscriptions[call.arg]

\* The date k periods after startDate: the calendar rule of the duration
\* applied to startDate.
Boundary(subscription, k) ==
    Project(subscription.startDate, subscription.recurringDuration, k)

\* The least k >= 0 whose boundary is strictly later than the clock.  A
\* period is at least 7 days long, so the search is bounded.
EarliestCycle(subscription) ==
    LET elapsed == IF DateLT(now, subscription.startDate) THEN 0
                   ELSE now.day - subscription.startDate.day
        K == 0..((elapsed \div 7) + 2)
    IN  CHOOSE k \in K :
          /\ DateLT(now, Boundary(subscription, k))
          /\ \A j \in K : j < k => ~ DateLT(now, Boundary(subscription, j))

\* C1: for each of the six durations, calculateNextRenewalDate returns the
\* earliest date startDate + k periods (k >= 0) that is strictly later than
\* the clock, so that no cycle boundary lies between the clock and the
\* returned date.
C1_NextRenewalIsEarliestBoundary ==
    (call.op = "calculateNextRenewalDate"
       /\ CalledSub.recurringDuration \in Durations)
    => call.result = Boundary(CalledSub, EarliestCycle(CalledSub))

\* C2: for each of the six durations, a subscription that has started gets a
\* renewal date strictly later than the clock, and one that has not started
\* gets its startDate.
C2_CorrectionPassSuffices ==
    (call.op = "calculateNextRenewalDate"
       /\ CalledSub.recurringDuration \in Durations)
    => IF DateLT(now, CalledSub.startDate)
       THEN call.result = CalledSub.startDate
       ELSE DateLT(now, call.result)

\* C2's case: the first projection of cyclesPassed + 1 periods is not later
\* than the clock, and the correction pass has acted.
C2_Witness ==
    /\ call.op = "calculateNextRenewalDate"
    /\ CalledSub.recurringDuration \in Durations
    /\ DateLE(CalledSub.startDate, now)
    /\ DateLE(Boundary(CalledSub,
                (FloorDays(CalledSub.startDate, now)
                   \div getDaysInDuration(CalledSub.recurringDuration)) + 1),
              now)
    /\ DateLT(now, call.result)

\* C3: a subscription whose duration is not one of the six gets from
\* calculateNextRenewalDate the date the same subscription would get with
\* duration monthly.
C3_UnknownDurationRenewsAsMonthly ==
    (call.op = "calculateNextRenewalDate"
       /\ CalledSub.recurringDuration \notin Durations)
    => call.result =
         NextRenewalAt([CalledSub EXCEPT !.recurringDuration = "monthly"], now)

\* The number of whole 24-hour days from a to b, for a <= b: the calendar
\* days between them, less one when b's time of day is before a's.
ElapsedDays(a, b) ==
    IF b.ms >= a.ms THEN b.day - a.day ELSE b.day - a.day - 1

\* The day counts of the durations, as the specification lists them.
CycleDays(duration) ==
    IF duration \in Durations
    THEN [d \in Durations |->
            CASE d = "weekly" -> 7 [] d = "bi-weekly" -> 14
              [] d = "monthly" -> 30 [] d = "quarterly" -> 90
              [] d = "semi-annually" -> 180 [] d = "yearly" -> 365][duration]
    ELSE 30

\* The authoritative price: the sum of the charges when there are any,
\* otherwise the flat price.
RECURSIVE AmountsFrom(_, _)
AmountsFrom(charges, i) ==
    IF i > Len(charges) THEN 0
    ELSE charges[i].amount + AmountsFrom(charges, i + 1)
TotalOf(subscription) ==
    IF subscription.charges.present /\ subscription.charges.items # << >>
    THEN AmountsFrom(subscription.charges.items, 1)
    ELSE subscription.price

\* C6: calculateTotalSpent is 0 before startDate, and from startDate on it is
\* the total price times (floor(elapsed days / days of the duration) + 1),
\* hence at least one cycle.
C6_TotalSpent ==
    call.op = "calculateTotalSpent"
    => IF DateLT(now, CalledSub.startDate)
       THEN call.result = 0
       ELSE /\ call.result =
                 TotalOf(CalledSub)
                   * ((ElapsedDays(CalledSub.startDate, now)
                         \div CycleDays(CalledSub.recurringDuration)) + 1)
            /\ call.result >= TotalOf(CalledSub)

\* C6's scenario: price 12, monthly, started 40 days ago, gives 24.
C6_Witness ==
    /\ call.op = "calculateTotalSpent"
    /\ CalledSub.recurringDuration = "monthly"
    /\ ~ CalledSub.charges.present
    /\ CalledSub.price = 12
    /\ DateLE(CalledSub.startDate, now)
    /\ ElapsedDays(CalledSub.startDate, now) = 40
    /\ call.result = 24

(***************************************************************************)
(* Properties of the calls on an array.                                    *)
(***************************************************************************)

\* The projected renewal date of the subscription at index i.
RenewalOf(i) == calculateNextRenewalDate(subscriptions[i])

\* The indexes of the subscriptions of a returned array.
IdsOf(seq) == { seq[k].id : k \in 1..Len(seq) }

\* A returned array holds subscriptions of the input, none twice.
FromInput(seq) ==
    /\ \A k \in 1..Len(seq) :
         /\ seq[k].id \in DOMAIN subscriptions
         /\ seq[k] = subscriptions[seq[k].id]
    /\ Cardinality(IdsOf(seq)) = Len(seq)

\* A returned array is in ascending order of renewal date, subscriptions with
\* the same date in their input order.
AscendingStable(seq) ==
    \A k, l \in 1..Len(seq) :
       k < l => \/ DateLT(RenewalOf(seq[k].id), RenewalOf(seq[l].id))
                \/ /\ RenewalOf(seq[k].id) = RenewalOf(seq[l].id)
                   /\ seq[k].id < seq[l].id

\* A returned array is in ascending order of renewal date.
Ascending(seq) ==
    \A k, l \in 1..Len(seq) :
       k < l => DateLE(RenewalOf(seq[k].id), RenewalOf(seq[l].id))

\* A date lies in the calendar month of the clock.
InCurrentMonth(t) ==
    /\ Civil(t.day).year = Civil(now.day).year
    /\ Civil(t.day).month = Civil(now.day).month

\* C4: getRenewalsThisMonth returns exactly the subscriptions whose renewal
\* date lies in the calendar month of the clock, the whole last day of the
\* month included, in ascending order of renewal date.
C4_RenewalsThisMonthWholeMonth ==
    call.op = "getRenewalsThisMonth"
    => /\ FromInput(call.result)
       /\ IdsOf(call.result) =
            { i \in DOMAIN subscriptions : InCurrentMonth(RenewalOf(i)) }
       /\ Ascending(call.result)

\* The end of the window of getUpcomingRenewals: the clock plus daysAhead
\* days.
WindowEnd(daysAhead) == [day |-> now.day + daysAhead, ms |-> now.ms]

\* C5: getUpcomingRenewals returns exactly the subscriptions whose renewal
\* date d has now <= d <= now + daysAhead days, none more often than the
\* input holds it, in ascending order of d and in input order for equal
\* dates.
C5_UpcomingRenewalsWindow ==
    call.op = "getUpcomingRenewals"
    => /\ FromInput(call.result)
       /\ IdsOf(call.result) =
            { i \in DOMAIN subscriptions :
                /\ DateLE(now, RenewalOf(i))
                /\ DateLE(RenewalOf(i), WindowEnd(call.arg)) }
       /\ AscendingStable(call.result)

\* C5's scenario: with the default of 30 days a subscription that renews 45
\* days out is left out, and two that renew within the window are returned
\* in the order of their dates, which is not their input order.
C5_Witness ==
    /\ call.op = "getUpcomingRenewals"
    /\ call.arg = 30
    /\ \E i \in DOMAIN subscriptions :
         /\ RenewalOf(i) = WindowEnd(45)
         /\ i \notin IdsOf(call.result)
    /\ Len(call.result) = 2
    /\ call.result[1].id > call.result[2].id

\* The monthly-normalized cost of a subscription.
MonthlyOf(subscription) ==
    calculateMonthlyCost(getTotalPrice(subscription),
                         subscription.recurringDuration)

\* C7: getMostCostlySubscription returns null for the empty array, and
\* otherwise the first subscription of the array among those whose
\* monthly-normalized cost is the highest.
C7_MostCostlyFirstOfHighest ==
    call.op = "getMostCostlySubscription"
    => IF subscriptions = << >> THEN call.result = Null
       ELSE /\ call.result.id \in DOMAIN subscriptions
            /\ call.result = subscriptions[call.result.id]
            /\ \A i \in DOMAIN subscriptions :
                 ~ GT(MonthlyOf(subscriptions[i]), MonthlyOf(call.result))
            /\ \A i \in DOMAIN subscriptions :
                 i < call.result.id
                 => GT(MonthlyOf(call.result), MonthlyOf(subscriptions[i]))

\* C7's case: the highest cost is shared by the returned subscription and a
\* later one, and an earlier one costs less.
C7_Witness ==
    /\ call.op = "getMostCostlySubscription"
    /\ subscriptions # << >>
    /\ \E i, j \in DOMAIN subscriptions :
         /\ i < call.result.id
         /\ call.result.id < j
         /\ GT(MonthlyOf(call.result), MonthlyOf(subscriptions[i]))
         /\ ~ GT(MonthlyOf(call.result), MonthlyOf(subscriptions[j]))
         /\ ~ GT(MonthlyOf(subscriptions[j]), MonthlyOf(call.result))
         /\ subscriptions[j].recurringDuration # call.result.recurringDuration

\* C8: getNextRenewal returns null for the empty array, and otherwise a
\* subscription of the array with its renewal date, which is not later than
\* the renewal date of any subscription of the array.
C8_NextRenewalIsEarliest ==
    call.op = "getNextRenewal"
    => IF subscriptions = << >> THEN call.result = Null
       ELSE /\ call.result.subscription.id \in DOMAIN subscriptions
            /\ call.result.subscription =
                 subscriptions[call.result.subscription.id]
            /\ call.result.date =
                 calculateNextRenewalDate(call.result.subscription)
            /\ \A i \in DOMAIN subscriptions :
                 DateLE(call.result.date, RenewalOf(i))

\* C8's case: the returned subscription is not the first of the array and
\* renews strictly before it.
C8_Witness ==
    /\ call.op = "getNextRenewal"
    /\ Len(subscriptions) >= 2
    /\ call.result.subscription.id > 1
    /\ DateLT(call.result.date, RenewalOf(1))

\* C9: getTotalPrice is the sum of the amounts of the charges when charges
\* is present and not empty, and the flat price when charges is absent or
\* empty; the flat price is no part of the sum.
C9_TotalPrice ==
    call.op = "getTotalPrice"
    => call.result =
         IF CalledSub.charges.present /\ CalledSub.charges.items # << >>
         THEN AmountsFrom(CalledSub.charges.items, 1)
         ELSE CalledSub.price

\* C9's case: two charges whose sum is not the flat price.
C9_Witness ==
    /\ call.op = "getTotalPrice"
    /\ CalledSub.charges.present
    /\ Len(CalledSub.charges.items) = 2
    /\ CalledSub.price = 144
    /\ call.result = 12

\* The groups g partition the array by key: the keys are those that occur,
\* the group of a key is the subsequence of the subscriptions with that key,
\* and each subscription is in one group only.
PartitionBy(g, KeyOf(_)) ==
    /\ DOMAIN g = { KeyOf(subscriptions[i]) : i \in DOMAIN subscriptions }
    /\ \A key \in DOMAIN g :
         /\ g[key] # << >>
         /\ g[key] = SelectSeq(subscriptions, LAMBDA sub : KeyOf(sub) = key)
    /\ \A i \in DOMAIN subscriptions :
         Cardinality({ key \in DOMAIN g :
                         \E j \in 1..Len(g[key]) : g[key][j] = subscriptions[i] })
           = 1

CurrencyOf(sub) == sub.currency
DurationOf(sub) == sub.recurringDuration

\* C10: groupByCurrency and groupByDuration partition the array by currency
\* and by duration, with no empty group, each group in input order.
C10_GroupsPartition ==
    /\ call.op = "groupByCurrency" => PartitionBy(call.result, CurrencyOf)
    /\ call.op = "groupByDuration" => PartitionBy(call.result, DurationOf)

\* C10's case: two currencies, the subscriptions of one of them apart in
\* the array.
C10_Witness ==
    /\ call.op = "groupByCurrency"
    /\ Len(subscriptions) = 3
    /\ subscriptions[1].currency = "USD"
    /\ subscriptions[2].currency = "EUR"
    /\ subscriptions[3].currency = "USD"
    /\ call.result["USD"] = << subscriptions[1], subscriptions[3] >>
    /\ call.result["EUR"] = << subscriptions[2] >>

\* Two amounts of money are the same amount: they differ by no more than
\* 2^-8, which is less than half a cent, the rounding of the doubles apart.
Tolerance == [m |-> << 0, 0, 0, 128 >>, e |-> -60]
SameAmount(a, b) ==
    /\ ~ GT(a, Plus(b, Tolerance))
    /\ ~ GT(b, Plus(a, Tolerance))

\* C12: the Total Monthly Cost of StatsSection is the yearly cost shown
\* beside it over 12, and the average monthly cost shown beside it times
\* the number of subscriptions displayed.
C12_TotalMonthlyAgreesWithOtherFigures ==
    (call.op = "StatsSection" /\ call.result.shown = "figures")
    => /\ SameAmount(call.result.totalMonthly,
                     Over(call.result.yearlyCost, 12))
       /\ SameAmount(call.result.totalMonthly,
                     Times(call.result.averageMonthly,
                           Number(call.result.count)))

\* The result of the last call, made again now with the same argument.
Again ==
    CASE call.op = "getUpcomingRenewals" ->
           getUpcomingRenewals(subscriptions, call.arg)
      [] call.op = "getRenewalsThisMonth" -> getRenewalsThisMonth(subscriptions)
      [] call.op = "getNextRenewal" -> getNextRenewal(subscriptions)
      [] call.op = "calculateNextRenewalDate" ->
           calculateNextRenewalDate(subscriptions[call.arg])
      [] call.op = "getMostCostlySubscription" ->
           getMostCostlySubscription(subscriptions)
      [] call.op = "groupByCurrency" -> groupByCurrency(subscriptions)
      [] call.op = "groupByDuration" -> groupByDuration(subscriptions)

\* C11: no call changes the array it is given, neither its order nor a field
\* of a subscription, and in every state a sequence of calls has led to, the
\* last call made again returns the result it returned.
C11_InputNeverMutated ==
    [][ /\ subscriptions' = subscriptions
        /\ call.op # "none" => call.result = Again ]_vars

\* C11's case: a call that sorted has returned two subscriptions that have
\* started, with their computed renewal dates in the reverse of the input
\* order, and the array is as it was built.
C11_Witness ==
    /\ call.op = "getUpcomingRenewals"
    /\ Len(call.result) = 2
    /\ call.result[1].id > call.result[2].id
    /\ \A k \in 1..2 : /\ DateLE(call.result[k].startDate, now)
                       /\ call.result[k].recurringDuration \in Durations
    /\ \A i \in DOMAIN subscriptions : subscriptions[i].id = i

====
